---- MODULE Spec2Model ----
(***************************************************************************)
(* Model of server/controllers/emails.js: the company-info fetcher with    *)
(* its process-wide cache and bounded retry, the bulk generation           *)
(* controller (fan-out over recipients, Promise.all join) and the          *)
(* sequential bulk sender.                                                 *)
(*                                                                         *)
(* Node runs the module on one event loop: each action below is one turn   *)
(* of that loop, i.e. an HTTP request arriving or the completion of one    *)
(* outstanding I/O call, together with every synchronous statement and     *)
(* promise continuation that runs before the loop is idle again.           *)
(***************************************************************************)
EXTENDS Integers, Sequences, FiniteSets, TLC

\* ------------------------------------------------------------- constants

\* new NodeCache({ stdTTL: 3600 }): seconds an entry lives
stdTTL == 3600

\* fetchCompanyInfo = async (companyName, retries = 3)
DefaultRetries == 3

\* ---------------------------------------------------------------- bounds

\* the clock advances in steps of TickSeconds up to MaxNow
TickSeconds == 3600
MaxNow == 7200

\* direct callers of the exported fetchCompanyInfo pass retries in 0..MaxRetries
MaxRetries == 2

\* longest recipients list of a generate request, longest emails list of a
\* send request
MaxRecipients == 2
MaxEmails == 2

\* longest content, in characters, of the emails whose subject and body are
\* examined
MaxContentLen == 3

\* ---------------------------------------------------------- value domains

\* JavaScript null and undefined
Null == "<null>"
Undefined == "<undefined>"

Companies == {"Acme", "Globex"}

\* response.data of the company-info API.  The payload is opaque: the API
\* may answer 200 with an empty body (axios yields "") as well as with an
\* object (written here as its JSON text).
Payloads == {"", "{a}", "{b}"}

\* JavaScript truthiness of the values above (if (cachedInfo), companyInfo ? :)
Truthy(v) == v \notin {Null, Undefined, ""}

\* callers of fetchCompanyInfo: <<0, j>> is a direct caller of the exported
\* function, <<r, i>> with r > 0 the pipeline of recipient i of generate
\* request r
DirectCallers == {<<0, 1>>, <<0, 2>>}
GenReqs == {1}
Pipelines == {<<r, i>> : r \in GenReqs, i \in 1..MaxRecipients}
Callers == DirectCallers \cup Pipelines

\* the elements of req.body.recipients of a generate request (the same
\* recipient may occur twice in a list)
Recipients ==
    { [email |-> "a@x.com", companyName |-> "Acme", description |-> "d1"],
      [email |-> "c@y.com", companyName |-> "Globex", description |-> "d2"] }

SeqsUpTo(S, n) == UNION { [1..m -> S] : m \in 0..n }

\* recipients is absent, an array, or a truthy value that is no array
GenBodies ==
    { [type |-> "undefined", items |-> <<>>], [type |-> "object", items |-> <<>>] }
    \cup { [type |-> "array", items |-> s] : s \in SeqsUpTo(Recipients, MaxRecipients) }

\* completion.choices[0].message.content, as a sequence of characters
Completions == { <<"S", "\n", "B">>, <<" ", "T", "\n", "B", "\n">> }

\* req.body.emails of a send request: the elements, and the body itself,
\* which is absent, an array, or a truthy value that is no array
Emails ==
    { [email |-> "a@x.com", content |-> [type |-> "string", chars |-> <<"S", "\n", "B">>]],
      [email |-> "b@x.com", content |-> [type |-> "string", chars |-> <<"T">>]],
      [email |-> "b@x.com", content |-> [type |-> "string", chars |-> <<"S", "\n", "B", "\n", "C">>]],
      [email |-> "c@y.com", content |-> [type |-> "undefined", chars |-> <<>>]] }

SendReqs == {1, 2}

SendBodies ==
    { [type |-> "undefined", items |-> <<>>], [type |-> "string", items |-> <<>>] }
    \cup { [type |-> "array", items |-> s] : s \in SeqsUpTo(Emails, MaxEmails) }

VARIABLES
    now,        \* Date.now(), in seconds
    cache,      \* the NodeCache instance: key -> entry
    fetch,      \* per caller: its fetchCompanyInfo invocation
    clean,      \* per direct caller: no entry at entry, no success for the name since
    gen,        \* per generate request: recipients, the Promise.all join, and
                \* the order in which its pipelines settled
    pipe,       \* per pipeline: the async arrow function of recipients.map
    gres,       \* per generate request: the responses written to res
    send,       \* per send request: emails and the loop position
    mails,      \* per send request: its transporter.sendMail calls, in order
    sres        \* per send request: the responses written to res

vars == <<now, cache, fetch, clean, gen, pipe, gres, send, mails, sres>>

\* ------------------------------------------------------------ the cache

\* `company:${companyName}`
cacheKey(companyName) == "company:" \o companyName

Keys == {cacheKey(c) : c \in Companies}

NoEntry == [has |-> FALSE, v |-> Undefined, t |-> 0]

\* node-cache _check: an entry is stale once its expiry instant has passed
expired(e, time) == e.has /\ e.t < time

\* cache.get(key): the stored value, undefined for a missing or stale key
cacheGet(c, key, time) ==
    IF c[key].has /\ ~expired(c[key], time) THEN c[key].v ELSE Undefined

\* cache.get(key) deletes the key it finds stale (deleteOnExpire)
cacheAfterGet(c, key, time) ==
    IF expired(c[key], time) THEN [c EXCEPT ![key] = NoEntry] ELSE c

\* cache.set(key, value): stores with expiry now + stdTTL
cacheSet(c, key, value, time) ==
    [c EXCEPT ![key] = [has |-> TRUE, v |-> value, t |-> time + stdTTL]]

\* ------------------------------------------------------ fetchCompanyInfo

\* an invocation: its arguments (name, retries; init is the retries of the
\* outermost call), where it stands (st), the return statement it left by
\* (via), its value (result) and the axios requests it has issued (calls)
Idle == [st |-> "idle", name |-> "Acme", retries |-> 0, init |-> 0,
         calls |-> 0, via |-> "none", result |-> Undefined]

\* entering fetchCompanyInfo(inv.name, inv.retries): the cache look-up and,
\* on a miss, the axios request that the invocation then awaits
fetchEnter(inv, c, time) ==
    LET cachedInfo == cacheGet(c, cacheKey(inv.name), time) IN
    IF Truthy(cachedInfo)
    THEN [inv EXCEPT !.st = "returned", !.via = "cache", !.result = cachedInfo]
    ELSE [inv EXCEPT !.st = "await", !.calls = @ + 1]

\* the request resolved: companyInfo = response.data is cached and returned
fetchResolved(inv, data) ==
    [inv EXCEPT !.st = "returned", !.via = "api", !.result = data]

\* the catch block with retries = 0: log and return null
fetchExhausted(inv) ==
    [inv EXCEPT !.st = "returned", !.via = "catch", !.result = Null]

\* faulty variant: the retry test is retries > 1
fetchRejected_OffByOne(inv, c, time) ==
    IF inv.retries > 1
    THEN fetchEnter([inv EXCEPT !.retries = @ - 1], c, time)
    ELSE fetchExhausted(inv)

\* faulty variant: the retry test is retries >= 0
fetchRejected_OneMore(inv, c, time) ==
    IF inv.retries >= 0
    THEN fetchEnter([inv EXCEPT !.retries = @ - 1], c, time)
    ELSE fetchExhausted(inv)

\* the catch block: recurse with retries - 1 while retries > 0
fetchRejected(inv, c, time) ==
    IF inv.retries > 0
    THEN fetchEnter([inv EXCEPT !.retries = @ - 1], c, time)
    ELSE fetchExhausted(inv)

\* a live entry (of any value) is stored for the company
hasEntry(c, name, time) ==
    c[cacheKey(name)].has /\ ~expired(c[cacheKey(name)], time)

\* ------------------------------------------------- generateEmailContent

NoPipe == [pc |-> "none", companyInfo |-> Undefined,
           prompt |-> [email |-> "", description |-> "", companyName |-> "", info |-> ""],
           value |-> [email |-> "", content |-> <<>>]]

\* the prompt template: the recipient's fields and the company info, or the
\* placeholder sentence when companyInfo is falsy
buildPrompt(recipient, companyInfo) ==
    [email |-> recipient.email, description |-> recipient.description,
     companyName |-> recipient.companyName,
     info |-> IF Truthy(companyInfo) THEN companyInfo
              ELSE "No company information provided."]

IsSpace(ch) == ch \in {" ", "\n"}

RECURSIVE trimStart(_)
trimStart(s) ==
    IF s # <<>> /\ IsSpace(Head(s)) THEN trimStart(Tail(s)) ELSE s

RECURSIVE trimEnd(_)
trimEnd(s) ==
    IF s # <<>> /\ IsSpace(s[Len(s)]) THEN trimEnd(SubSeq(s, 1, Len(s) - 1)) ELSE s

\* String.prototype.trim
trim(s) == trimEnd(trimStart(s))

\* faulty variant: a null company info aborts the pipeline
pipeAfterFetch_AbortOnNull(p, k, inv, recipient) ==
    IF inv.st = "returned" /\ inv.result = Null
    THEN [p EXCEPT ![k] = [NoPipe EXCEPT !.pc = "rejected"]]
    ELSE IF inv.st = "returned"
    THEN [p EXCEPT ![k] = [pc |-> "gen", companyInfo |-> inv.result,
                           prompt |-> buildPrompt(recipient, inv.result),
                           value |-> NoPipe.value]]
    ELSE [p EXCEPT ![k] = [NoPipe EXCEPT !.pc = "fetch"]]

\* faulty variant: a text already generated from an identical prompt is
\* reused instead of issuing a completion call
pipeAfterFetch_Memoized(p, k, inv, recipient) ==
    LET same == {j \in DOMAIN p : /\ p[j].pc = "fulfilled"
                                  /\ p[j].prompt = buildPrompt(recipient, inv.result)}
    IN
    IF inv.st = "returned" /\ same # {}
    THEN [p EXCEPT ![k] = p[CHOOSE j \in same : TRUE]]
    ELSE IF inv.st = "returned"
    THEN [p EXCEPT ![k] = [pc |-> "gen", companyInfo |-> inv.result,
                           prompt |-> buildPrompt(recipient, inv.result),
                           value |-> NoPipe.value]]
    ELSE [p EXCEPT ![k] = [NoPipe EXCEPT !.pc = "fetch"]]

\* the pipeline of caller k once its fetchCompanyInfo invocation inv has
\* returned: generateEmailContent(recipient, companyInfo) issues the
\* completion call and awaits it
pipeAfterFetch(p, k, inv, recipient) ==
    IF inv.st = "returned"
    THEN [p EXCEPT ![k] = [pc |-> "gen", companyInfo |-> inv.result,
                           prompt |-> buildPrompt(recipient, inv.result),
                           value |-> NoPipe.value]]
    ELSE [p EXCEPT ![k] = [NoPipe EXCEPT !.pc = "fetch"]]

\* the recipient whose pipeline k is
recipientOf(g, k) == g[k[1]].body.items[k[2]]

\* pipe' after caller k's invocation moved to inv (direct callers have none)
resume(p, g, k, inv) ==
    IF k \in Pipelines THEN pipeAfterFetch(p, k, inv, recipientOf(g, k)) ELSE p

\* the invocation of caller k as the model keeps it: a direct caller holds
\* the returned invocation until its next call; a pipeline's invocation is
\* gone once its value has been handed to the pipeline
kept(k, inv) ==
    IF k \in Pipelines /\ inv.st = "returned" THEN Idle ELSE inv

\* ---------------------------------------------------------------- Init

Init ==
    /\ now = 0
    /\ cache = [key \in Keys |-> NoEntry]
    /\ fetch = [k \in Callers |-> Idle]
    /\ clean = [k \in DirectCallers |-> TRUE]
    /\ gen = [r \in GenReqs |-> [body |-> [type |-> "undefined", items |-> <<>>],
                                 all |-> "idle", order |-> <<>>]]
    /\ pipe = [k \in Pipelines |-> NoPipe]
    /\ gres = [r \in GenReqs |-> <<>>]
    /\ send = [q \in SendReqs |-> [st |-> "idle", type |-> "undefined", emails |-> <<>>, idx |-> 0]]
    /\ mails = [q \in SendReqs |-> <<>>]
    /\ sres = [q \in SendReqs |-> <<>>]

\* ------------------------------------------------- actions of the fetcher

\* clean[k] records that the cache held no live entry for the name when k's
\* invocation was entered and that no request for that name has succeeded
\* since: a success for name clears it for every invocation for that name
cleanAfterSuccess(cl, f, name) ==
    [k \in DirectCallers |-> IF f[k].name = name THEN FALSE ELSE cl[k]]

\* a direct call fetchCompanyInfo(name, n)
Call(k, name, n) ==
    /\ fetch[k].st \in {"idle", "returned"}
    /\ LET inv == [Idle EXCEPT !.name = name, !.retries = n, !.init = n] IN
       /\ fetch' = [fetch EXCEPT ![k] = fetchEnter(inv, cache, now)]
       /\ cache' = cacheAfterGet(cache, cacheKey(name), now)
       /\ clean' = [clean EXCEPT ![k] = ~hasEntry(cache, name, now)]
    /\ UNCHANGED <<now, gen, pipe, gres, send, mails, sres>>

\* axiosInstance.get resolves with response.data = data
AxiosResolves(k, data) ==
    /\ fetch[k].st = "await"
    /\ LET inv == fetchResolved(fetch[k], data) IN
       /\ fetch' = [fetch EXCEPT ![k] = kept(k, inv)]
       /\ cache' = cacheSet(cache, cacheKey(fetch[k].name), data, now)
       /\ clean' = cleanAfterSuccess(clean, fetch, fetch[k].name)
       /\ pipe' = resume(pipe, gen, k, inv)
    /\ UNCHANGED <<now, gen, gres, send, mails, sres>>

\* faulty variant: a failed request evicts the company's entry
AxiosRejects_Evicts(k) ==
    /\ fetch[k].st = "await"
    /\ LET inv == fetchRejected(fetch[k], cache, now) IN
       /\ fetch' = [fetch EXCEPT ![k] = kept(k, inv)]
       /\ cache' = [cache EXCEPT ![cacheKey(fetch[k].name)] = NoEntry]
       /\ pipe' = resume(pipe, gen, k, inv)
    /\ UNCHANGED <<now, clean, gen, gres, send, mails, sres>>

\* axiosInstance.get rejects (network error, non-2xx status, timeout)
AxiosRejects(k) ==
    /\ fetch[k].st = "await"
    /\ LET inv == fetchRejected(fetch[k], cache, now) IN
       /\ fetch' = [fetch EXCEPT ![k] = kept(k, inv)]
       /\ cache' = IF fetch[k].retries > 0
                   THEN cacheAfterGet(cache, cacheKey(fetch[k].name), now)
                   ELSE cache
       /\ pipe' = resume(pipe, gen, k, inv)
    /\ UNCHANGED <<now, clean, gen, gres, send, mails, sres>>

\* time passes
Tick ==
    /\ now + TickSeconds <= MaxNow
    /\ now' = now + TickSeconds
    /\ UNCHANGED <<cache, fetch, clean, gen, pipe, gres, send, mails, sres>>

\* node-cache's periodic check deletes every stale entry
checkData ==
    /\ \E key \in Keys : expired(cache[key], now)
    /\ cache' = [key \in Keys |-> IF expired(cache[key], now) THEN NoEntry ELSE cache[key]]
    /\ UNCHANGED <<now, fetch, clean, gen, pipe, gres, send, mails, sres>>

NextFetch ==
    \/ \E k \in DirectCallers, name \in Companies, n \in 0..MaxRetries : Call(k, name, n)
    \/ \E k \in DirectCallers, data \in Payloads : AxiosResolves(k, data)
    \/ \E k \in DirectCallers : AxiosRejects(k)
    \/ Tick
    \/ checkData

SpecFetch == Init /\ [][NextFetch]_vars

\* a direct call fetchCompanyInfo(name): retries takes its default
CallDefault(k, name) == Call(k, name, DefaultRetries)

\* the outstanding axios request of caller k settles, one way or the other
AxiosSettles(k) == (\E data \in Payloads : AxiosResolves(k, data)) \/ AxiosRejects(k)

NextFetchDefault ==
    \/ \E k \in DirectCallers, name \in Companies : CallDefault(k, name)
    \/ \E k \in DirectCallers, data \in Payloads : AxiosResolves(k, data)
    \/ \E k \in DirectCallers : AxiosRejects(k)
    \/ Tick
    \/ checkData

\* concurrent invocations with the default retry count; every axios request
\* settles (the instance is created with timeout: 5000)
SpecFetchDefault ==
    /\ Init
    /\ [][NextFetchDefault]_vars
    /\ \A k \in DirectCallers : WF_vars(AxiosSettles(k))

\* ------------------------------------------- generateEmailController

Response(status, error, message, emails) ==
    [status |-> status, error |-> error, message |-> message, emails |-> emails]

\* faulty variant: the empty list passes validation
invalidRecipients_NoEmptyCheck(body) == body.type = "undefined"

\* !recipients || recipients.length === 0
invalidRecipients(body) ==
    body.type = "undefined" \/ (body.type = "array" /\ Len(body.items) = 0)

pipelinesOf(r, n) == {<<r, i>> : i \in 1..n}

\* fetchCompanyInfo(recipient.companyName) as entered by the map callback
firstFetch(recipient, c, time) ==
    fetchEnter([Idle EXCEPT !.name = recipient.companyName,
                            !.retries = DefaultRetries, !.init = DefaultRetries],
               c, time)

\* faulty variant: the join waits for every pipeline before it rejects
promiseAll_AllSettled(prev, p, r, n) ==
    IF prev # "pending" THEN prev
    ELSE IF \E k \in pipelinesOf(r, n) : p[k].pc \in {"fetch", "gen"} THEN "pending"
    ELSE IF \E k \in pipelinesOf(r, n) : p[k].pc = "rejected" THEN "rejected"
    ELSE "fulfilled"

\* Promise.all(emailPromises) over pipelines p of request r with n recipients:
\* it settles once, rejected by the first rejection, fulfilled when every
\* pipeline is
promiseAll(prev, p, r, n) ==
    IF prev # "pending" THEN prev
    ELSE IF \E k \in pipelinesOf(r, n) : p[k].pc = "rejected" THEN "rejected"
    ELSE IF \A k \in pipelinesOf(r, n) : p[k].pc = "fulfilled" THEN "fulfilled"
    ELSE "pending"

\* faulty variant: the results are collected in completion order
joinValues_CompletionOrder(p, r, n) ==
    [i \in 1..n |-> p[<<r, gen'[r].order[i]>>].value]

\* the value Promise.all fulfils with: the pipelines' values by index
joinValues(p, r, n) == [i \in 1..n |-> p[<<r, i>>].value]

\* faulty variant: every rejected pipeline answers, not the join
controllerAfterJoin_PerRejection(prev, cur, p, r, n) ==
    IF prev = "pending" /\ cur = "fulfilled"
    THEN <<Response(200, "", "", joinValues(p, r, n))>>
    ELSE IF cur = "rejected"
    THEN <<Response(500, "Failed to generate emails", "", <<>>)>>
    ELSE <<>>

\* the controller resumes from await Promise.all: what it writes to res
controllerAfterJoin(prev, cur, p, r, n) ==
    IF prev = "pending" /\ cur = "fulfilled"
    THEN <<Response(200, "", "", joinValues(p, r, n))>>
    ELSE IF prev = "pending" /\ cur = "rejected"
    THEN <<Response(500, "Failed to generate emails", "", <<>>)>>
    ELSE <<>>

\* a generate request arrives with req.body.recipients = body
generateEmailController(r, body) ==
    /\ gen[r].all # "pending"
    /\ \A k \in Pipelines : k[1] = r => pipe[k].pc \notin {"fetch", "gen"}
    /\ LET n == Len(body.items)
           started(i) == firstFetch(body.items[i], cache, now)
           mine(k) == k[1] = r /\ k[2] <= n
           running == body.type = "array" /\ n > 0
       IN
       /\ gen' = [gen EXCEPT ![r] = [body |-> body,
                                     all |-> IF running THEN "pending" ELSE "none",
                                     order |-> <<>>]]
       /\ gres' = [gres EXCEPT ![r] =
             IF invalidRecipients(body)
             THEN <<Response(400, "Invalid request data", "", <<>>)>>
             ELSE IF body.type # "array"
             THEN <<Response(500, "Failed to generate emails", "", <<>>)>>
             ELSE <<>>]
       /\ fetch' = [k \in Callers |->
             IF k[1] # r THEN fetch[k]
             ELSE IF mine(k) THEN kept(k, started(k[2])) ELSE Idle]
       /\ pipe' = [k \in Pipelines |->
             IF k[1] # r THEN pipe[k]
             ELSE IF mine(k)
             THEN pipeAfterFetch(pipe, k, started(k[2]), body.items[k[2]])[k]
             ELSE NoPipe]
       /\ cache' = [key \in Keys |->
             IF expired(cache[key], now)
                /\ \E i \in 1..n : cacheKey(body.items[i].companyName) = key
             THEN NoEntry ELSE cache[key]]
    /\ UNCHANGED <<now, clean, send, mails, sres>>

\* the pipelines and the join of k's request after k's pipeline became p[k]
settle(k, p) ==
    LET r == k[1]
        n == Len(gen[r].body.items)
        cur == promiseAll(gen[r].all, p, r, n)
    IN
    /\ pipe' = p
    /\ gen' = [gen EXCEPT ![r].all = cur, ![r].order = Append(@, k[2])]
    /\ gres' = [gres EXCEPT ![r] = @ \o controllerAfterJoin(gen[r].all, cur, p, r, n)]

\* the completion call of pipeline k resolves with message content text
CompletionResolves(k, text) ==
    /\ pipe[k].pc = "gen"
    /\ settle(k, [pipe EXCEPT ![k].pc = "fulfilled",
                              ![k].value = [email |-> recipientOf(gen, k).email,
                                            content |-> trim(text)]])
    /\ UNCHANGED <<now, cache, fetch, clean, send, mails, sres>>

\* the completion call of pipeline k fails, or its response carries no
\* message content for trim(): generateEmailContent logs and throws
\* Error("Failed to generate email")
CompletionRejects(k) ==
    /\ pipe[k].pc = "gen"
    /\ settle(k, [pipe EXCEPT ![k].pc = "rejected"])
    /\ UNCHANGED <<now, cache, fetch, clean, send, mails, sres>>

NextGen ==
    \/ \E r \in GenReqs, body \in GenBodies : generateEmailController(r, body)
    \/ \E k \in Pipelines, data \in Payloads : AxiosResolves(k, data)
    \/ \E k \in Pipelines : AxiosRejects(k)
    \/ \E k \in Pipelines, text \in Completions : CompletionResolves(k, text)
    \/ \E k \in Pipelines : CompletionRejects(k)

SpecGen == Init /\ [][NextGen]_vars

\* ------------------------------------------------------- emailSending

\* the index of the first separator in s, 0 when there is none
RECURSIVE indexOf(_, _, _)
indexOf(s, sep, i) ==
    IF i > Len(s) THEN 0 ELSE IF s[i] = sep THEN i ELSE indexOf(s, sep, i + 1)

\* String.prototype.split(sep): the pieces between separators
RECURSIVE split(_, _)
split(s, sep) ==
    LET i == indexOf(s, sep, 1) IN
    IF i = 0 THEN <<s>>
    ELSE <<SubSeq(s, 1, i - 1)>> \o split(SubSeq(s, i + 1, Len(s)), sep)

\* Array.prototype.join(sep)
RECURSIVE join(_, _)
join(parts, sep) ==
    IF parts = <<>> THEN <<>>
    ELSE IF Len(parts) = 1 THEN parts[1]
    ELSE parts[1] \o <<sep>> \o join(Tail(parts), sep)

\* faulty variant: the body is the second line only
mailOptions_SecondLineOnly(e) ==
    [from |-> "your-email@gmail.com",
     to |-> e.email,
     subject |-> split(e.content.chars, "\n")[1],
     text |-> IF Len(split(e.content.chars, "\n")) > 1
              THEN split(e.content.chars, "\n")[2] ELSE <<>>]

\* mailOptions of one element of emails
mailOptions(e) ==
    [from |-> "your-email@gmail.com",
     to |-> e.email,
     subject |-> split(e.content.chars, "\n")[1],
     text |-> join(Tail(split(e.content.chars, "\n")), "\n")]

\* !emails || !Array.isArray(emails)
invalidEmails(body) == body.type # "array"

\* faulty variant: sendMail is not awaited, every remaining email is handed over at once
sendLoop_NoAwait(q, emails, idx, log) ==
    /\ send' = [send EXCEPT ![q] = [st |-> "await", type |-> "array",
                                    emails |-> emails, idx |-> Len(emails)]]
    /\ sres' = sres
    /\ mails' = [mails EXCEPT ![q] =
                    log \o [i \in 1..(Len(emails) - idx + 1) |->
                              [opts |-> mailOptions(emails[idx + i - 1]), st |-> "inflight"]]]

\* faulty variant: the loop stops one element early
sendLoop_EarlyAnswer(q, emails, idx, log) ==
    IF idx >= Len(emails)
    THEN /\ send' = [send EXCEPT ![q] = [st |-> "done", type |-> "array",
                                         emails |-> emails, idx |-> idx]]
         /\ sres' = [sres EXCEPT ![q] =
                        @ \o <<Response(200, "", "Emails sent successfully!", <<>>)>>]
         /\ mails' = [mails EXCEPT ![q] = log]
    ELSE /\ send' = [send EXCEPT ![q] = [st |-> "await", type |-> "array",
                                         emails |-> emails, idx |-> idx]]
         /\ sres' = sres
         /\ mails' = [mails EXCEPT ![q] =
                         Append(log, [opts |-> mailOptions(emails[idx]), st |-> "inflight"])]

\* the for loop of send request q at position idx: past the end it answers
\* 200; an element whose content is no string makes content.split throw,
\* which the catch answers with 500; otherwise sendMail is called and awaited
sendLoop(q, emails, idx, log) ==
    IF idx > Len(emails)
    THEN /\ send' = [send EXCEPT ![q] = [st |-> "done", type |-> "array", emails |-> emails, idx |-> idx]]
         /\ sres' = [sres EXCEPT ![q] =
                        @ \o <<Response(200, "", "Emails sent successfully!", <<>>)>>]
         /\ mails' = [mails EXCEPT ![q] = log]
    ELSE IF emails[idx].content.type # "string"
    THEN /\ send' = [send EXCEPT ![q] = [st |-> "done", type |-> "array", emails |-> emails, idx |-> idx]]
         /\ sres' = [sres EXCEPT ![q] =
                        @ \o <<Response(500, "Failed to send emails.", "", <<>>)>>]
         /\ mails' = [mails EXCEPT ![q] = log]
    ELSE /\ send' = [send EXCEPT ![q] = [st |-> "await", type |-> "array", emails |-> emails, idx |-> idx]]
         /\ sres' = sres
         /\ mails' = [mails EXCEPT ![q] =
                         Append(log, [opts |-> mailOptions(emails[idx]), st |-> "inflight"])]

\* send request q arrives with req.body.emails = body
emailSending(q, body) ==
    /\ send[q].st = "idle"
    /\ IF invalidEmails(body)
       THEN /\ send' = [send EXCEPT ![q] = [st |-> "done", type |-> body.type, emails |-> <<>>, idx |-> 0]]
            /\ sres' = [sres EXCEPT ![q] =
                           <<Response(400, "Invalid email data format.", "", <<>>)>>]
            /\ mails' = mails
       ELSE sendLoop(q, body.items, 1, mails[q])
    /\ UNCHANGED <<now, cache, fetch, clean, gen, pipe, gres>>

\* the sendMail call of request q resolves: the loop logs and goes on
SendMailResolves(q) ==
    /\ send[q].st = "await"
    /\ sendLoop(q, send[q].emails, send[q].idx + 1,
                [mails[q] EXCEPT ![Len(mails[q])].st = "sent"])
    /\ UNCHANGED <<now, cache, fetch, clean, gen, pipe, gres>>

\* faulty variant: a failed send is caught inside the loop, which goes on
SendMailRejects_Continue(q) ==
    /\ send[q].st = "await"
    /\ sendLoop(q, send[q].emails, send[q].idx + 1,
                [mails[q] EXCEPT ![Len(mails[q])].st = "failed"])
    /\ UNCHANGED <<now, cache, fetch, clean, gen, pipe, gres>>

\* the sendMail call of request q rejects: the catch answers 500
SendMailRejects(q) ==
    /\ send[q].st = "await"
    /\ send' = [send EXCEPT ![q].st = "done"]
    /\ mails' = [mails EXCEPT ![q] = [@ EXCEPT ![Len(@)].st = "failed"]]
    /\ sres' = [sres EXCEPT ![q] =
                   @ \o <<Response(500, "Failed to send emails.", "", <<>>)>>]
    /\ UNCHANGED <<now, cache, fetch, clean, gen, pipe, gres>>

NextSend ==
    \/ \E q \in SendReqs, body \in SendBodies : emailSending(q, body)
    \/ \E q \in SendReqs : SendMailResolves(q)
    \/ \E q \in SendReqs : SendMailRejects(q)

SpecSend == Init /\ [][NextSend]_vars

\* send requests with one email each, its content any string of at most
\* MaxContentLen characters
ContentChars == {"a", "b", "\n"}

ContentEmails ==
    { [email |-> "a@x.com", content |-> [type |-> "string", chars |-> c]] :
        c \in SeqsUpTo(ContentChars, MaxContentLen) }

NextContent ==
    \/ \E q \in SendReqs, e \in ContentEmails :
          emailSending(q, [type |-> "array", items |-> <<e>>])
    \/ \E q \in SendReqs : SendMailResolves(q)
    \/ \E q \in SendReqs : SendMailRejects(q)

SpecContent == Init /\ [][NextContent]_vars

\* the two controllers side by side: the generate request and send request 1
NextControllers ==
    \/ NextGen
    \/ \E body \in SendBodies : emailSending(1, body)
    \/ SendMailResolves(1)
    \/ SendMailRejects(1)

SpecControllers == Init /\ [][NextControllers]_vars

\* send requests of at most one email
OneEmailBodies == {body \in SendBodies : Len(body.items) <= 1}

\* the cache over time: the generate request, send request 1 and the clock
NextCache ==
    \/ NextGen
    \/ \E body \in OneEmailBodies : emailSending(1, body)
    \/ SendMailResolves(1)
    \/ SendMailRejects(1)
    \/ Tick
    \/ checkData

SpecCache == Init /\ [][NextCache]_vars

\* ------------------------------------------------------------ the whole

Next == NextFetch \/ NextGen \/ NextSend

Spec == Init /\ [][Next]_vars

\* ------------------------------------------------------------- claims

\* a step in which direct caller k enters a new fetchCompanyInfo invocation
CallStep(k) == fetch[k].st # "await" /\ fetch'[k].st # "idle" /\ fetch'[k] # fetch[k]

\* a step in which the axios request of k's invocation resolves
ResolveStep(k) ==
    /\ fetch[k].st = "await" /\ fetch'[k].st = "returned"
    /\ fetch'[k].via = "api"

\* C1: a fetchCompanyInfo call for a name without a cache entry whose request
\* succeeds has issued exactly one request and stores the payload under
\* "company:" + name; a call for a name with an unexpired entry issues no
\* request and returns the stored payload, whatever the payload is.
C1_FetchThenCached ==
    [][\A k \in DirectCallers :
         /\ (ResolveStep(k) /\ fetch[k].retries = fetch[k].init) =>
               /\ fetch'[k].calls = 1
               /\ cache'[cacheKey(fetch[k].name)].has
               /\ cache'[cacheKey(fetch[k].name)].v = fetch'[k].result
         /\ (CallStep(k) /\ hasEntry(cache, fetch'[k].name, now)) =>
               /\ fetch'[k].st = "returned"
               /\ fetch'[k].calls = 0
               /\ fetch'[k].result = cache[cacheKey(fetch'[k].name)].v]_vars

\* C2 as stated: an invocation that issued requests, all of which failed,
\* has issued exactly N+1 of them, returned null without raising, and the
\* cache holds no entry for its company.
C2_AllFailOriginal ==
    \A k \in DirectCallers :
        (fetch[k].st \in {"returned", "threw"} /\ fetch[k].calls >= 1
            /\ fetch[k].via # "api") =>
            /\ fetch[k].st = "returned"
            /\ fetch[k].calls = fetch[k].init + 1
            /\ fetch[k].result = Null
            /\ ~hasEntry(cache, fetch[k].name, now)

\* C2 amended: an invocation entered while the cache holds no entry for its
\* company, and during and after which no request for that company has
\* succeeded, has issued exactly N+1 requests, returned null without
\* raising, and the cache holds no entry for the company.
C2_AllFail ==
    \A k \in DirectCallers :
        /\ fetch[k].st # "threw"
        /\ (fetch[k].st = "returned" /\ clean[k]) =>
              /\ fetch[k].via = "catch"
              /\ fetch[k].calls = fetch[k].init + 1
              /\ fetch[k].result = Null
              /\ ~hasEntry(cache, fetch[k].name, now)

\* an invocation with two retries has come back empty-handed after three
\* failed requests
C2_Witness ==
    \E k \in DirectCallers :
        /\ fetch[k].st = "returned" /\ clean[k]
        /\ fetch[k].init = 2 /\ fetch[k].calls = 3 /\ fetch[k].result = Null

\* C10: a call for a name whose entry has expired issues a new request (whose
\* success overwrites the entry); a call made before the expiry issues none.
C10_Expiry ==
    [][\A k \in DirectCallers :
         LET e == cache[cacheKey(fetch'[k].name)] IN
         /\ (CallStep(k) /\ e.has /\ e.t < now) =>
               (fetch'[k].st = "await" /\ fetch'[k].calls = 1)
         /\ (CallStep(k) /\ e.has /\ ~(e.t < now)) =>
               (fetch'[k].st = "returned" /\ fetch'[k].calls = 0)
         /\ (ResolveStep(k) /\ cache[cacheKey(fetch[k].name)].has) =>
               cache'[cacheKey(fetch[k].name)] =
                   [has |-> TRUE, v |-> fetch'[k].result, t |-> now + stdTTL]]_vars

\* the recipients of generate request r and their pipelines
items(r) == gen[r].body.items
pipes(r) == pipelinesOf(r, Len(items(r)))

Ok200(r) == \E i \in 1..Len(gres[r]) : gres[r][i].status = 200

\* C3: the emails of a 200 response are as many as the recipients, and the
\* i-th carries the i-th recipient's address and the text generated for that
\* recipient, whatever the order in which the pipelines completed.
C3_InputOrder ==
    \A r \in GenReqs : \A j \in 1..Len(gres[r]) :
        gres[r][j].status = 200 =>
            /\ Len(gres[r][j].emails) = Len(items(r))
            /\ \A i \in 1..Len(items(r)) :
                  /\ gres[r][j].emails[i].email = items(r)[i].email
                  /\ gres[r][j].emails[i].content = pipe[<<r, i>>].value.content
                  /\ pipe[<<r, i>>].value.email = items(r)[i].email

\* two recipients with different addresses got different texts, the second
\* pipeline completed first, and the 200 response has been written
C3_Witness ==
    \E r \in GenReqs :
        /\ Ok200(r)
        /\ gen[r].order = <<2, 1>>
        /\ items(r)[1].email # items(r)[2].email
        /\ pipe[<<r, 1>>].value.content # pipe[<<r, 2>>].value.content

Err500Gen == Response(500, "Failed to generate emails", "", <<>>)

\* C4: once the completion call of any recipient of a request has failed, what
\* the request has been answered with is exactly one 500 response with the
\* error "Failed to generate emails", which carries no generated text.
C4_AnyFailureFailsAll ==
    \A r \in GenReqs :
        (gen[r].all # "idle" /\ \E k \in pipes(r) : pipe[k].pc = "rejected") =>
            gres[r] = <<Err500Gen>>

\* one recipient's text has been generated, the other's completion call has
\* failed, and the answer is the 500
C4_Witness ==
    \E r \in GenReqs :
        /\ Len(items(r)) = 2
        /\ \E k \in pipes(r) : pipe[k].pc = "fulfilled" /\ pipe[k].value.content # <<>>
        /\ \E k \in pipes(r) : pipe[k].pc = "rejected"
        /\ gres[r] = <<Err500Gen>>

\* C5: a pipeline is rejected only after the generator was invoked for its
\* recipient; a fetch that came back null leads to a generator call with the
\* placeholder for absent company info; and when every completion call of a
\* request has succeeded the answer is one 200 response with one
\* {email, content} entry per recipient.
C5_NullInfoDoesNotAbort ==
    \A r \in GenReqs :
        gen[r].all \in {"pending", "fulfilled", "rejected"} =>
            /\ \A k \in pipes(r) :
                  /\ pipe[k].pc = "rejected" =>
                        pipe[k].prompt.email = recipientOf(gen, k).email
                  /\ (pipe[k].pc \in {"gen", "fulfilled", "rejected"}
                        /\ pipe[k].companyInfo = Null) =>
                        pipe[k].prompt =
                            [email |-> recipientOf(gen, k).email,
                             description |-> recipientOf(gen, k).description,
                             companyName |-> recipientOf(gen, k).companyName,
                             info |-> "No company information provided."]
            /\ (\A k \in pipes(r) : pipe[k].pc = "fulfilled") =>
                  /\ Len(gres[r]) = 1
                  /\ gres[r][1].status = 200
                  /\ Len(gres[r][1].emails) = Len(items(r))
                  /\ \A i \in 1..Len(items(r)) :
                        gres[r][1].emails[i].email = items(r)[i].email
            /\ (gres[r] # <<>>) =>
                  \/ \E k \in pipes(r) : pipe[k].pc = "rejected"
                  \/ \A k \in pipes(r) : pipe[k].pc = "fulfilled"

\* a request with two recipients, for one of which the fetch came back null
\* and for the other with a payload, has been answered with 200
C5_Witness ==
    \E r \in GenReqs :
        /\ Ok200(r)
        /\ Len(items(r)) = 2
        /\ pipe[<<r, 1>>].companyInfo = Null
        /\ Truthy(pipe[<<r, 2>>].companyInfo)

\* C6: the sendMail calls of a send request are issued in input order, one
\* at a time: the call for position i is for the i-th email, at most one
\* call is in flight, and it is the last one issued, every earlier call
\* having completed successfully.
C6_OneAtATime ==
    \A q \in SendReqs :
        /\ Len(mails[q]) <= Len(send[q].emails)
        /\ Cardinality({i \in 1..Len(mails[q]) : mails[q][i].st = "inflight"}) <= 1
        /\ \A i \in 1..Len(mails[q]) :
              /\ mails[q][i].opts.to = send[q].emails[i].email
              /\ i < Len(mails[q]) => mails[q][i].st = "sent"

\* the first email of a request has been sent and the second is in flight
C6_Witness ==
    \E q \in SendReqs :
        /\ Len(mails[q]) = 2
        /\ mails[q][1].st = "sent" /\ mails[q][2].st = "inflight"
        /\ mails[q][1].opts.to # mails[q][2].opts.to

Err500Send == Response(500, "Failed to send emails.", "", <<>>)

\* C7: when the sendMail call for position k of a request has failed, no call
\* has been issued for a later position, the calls for the earlier positions
\* stand as sent, and the answer is one 500 response with the error
\* "Failed to send emails.".
C7_HaltOnFailure ==
    \A q \in SendReqs : \A k \in 1..Len(mails[q]) :
        mails[q][k].st = "failed" =>
            /\ Len(mails[q]) = k
            /\ \A i \in 1..(k - 1) : mails[q][i].st = "sent"
            /\ send[q].st = "done"
            /\ sres[q] = <<Err500Send>>

\* the first of two emails failed, and the second has not been handed to
\* the transport; in the other request the second failed after the first
\* had been sent
C7_Witness ==
    /\ \E q \in SendReqs :
          /\ Len(send[q].emails) = 2
          /\ send[q].emails[2].content.type = "string"
          /\ Len(mails[q]) = 1 /\ mails[q][1].st = "failed"
    /\ \E q \in SendReqs :
          /\ Len(mails[q]) = 2
          /\ mails[q][1].st = "sent" /\ mails[q][2].st = "failed"

Ok200Send == Response(200, "", "Emails sent successfully!", <<>>)

wellFormed(emails) == \A i \in 1..Len(emails) : emails[i].content.type = "string"

\* C8: a send request with a list of n well-formed emails whose sendMail calls
\* have all succeeded has issued exactly n calls, the i-th to the i-th
\* email's address, and is answered with one 200 response with the message
\* "Emails sent successfully!"; no response is written while a call is
\* awaited, and a 200 is written only when a call for every email has
\* completed (for the empty list, at once, with no call).
C8_AllSent ==
    \A q \in SendReqs :
        /\ (send[q].st = "done" /\ send[q].type = "array" /\ wellFormed(send[q].emails)
              /\ \A i \in 1..Len(mails[q]) : mails[q][i].st = "sent") =>
              /\ Len(mails[q]) = Len(send[q].emails)
              /\ sres[q] = <<Ok200Send>>
        /\ send[q].st = "await" => sres[q] = <<>>
        /\ (\E j \in 1..Len(sres[q]) : sres[q][j].status = 200) =>
              /\ Len(mails[q]) = Len(send[q].emails)
              /\ \A i \in 1..Len(mails[q]) :
                    /\ mails[q][i].st = "sent"
                    /\ mails[q][i].opts.to = send[q].emails[i].email

\* one request has sent its two emails and is answered with 200, the other
\* came with the empty list and is answered with 200 without any call
C8_Witness ==
    /\ \E q \in SendReqs :
          /\ Len(send[q].emails) = 2 /\ Len(mails[q]) = 2
          /\ sres[q] = <<Ok200Send>>
    /\ \E q \in SendReqs :
          /\ send[q].st = "done" /\ send[q].type = "array" /\ send[q].emails = <<>>
          /\ mails[q] = <<>> /\ sres[q] = <<Ok200Send>>

\* a step in which generate request r arrives
GenArrives(r) ==
    /\ gen[r].all # "pending"
    /\ gen'[r].all \in {"none", "pending"}
    /\ <<gen'[r], gres'[r]>> # <<gen[r], gres[r]>>

\* a step in which send request q arrives
SendArrives(q) == send[q].st = "idle" /\ send'[q].st # "idle"

\* C9: a generate request whose recipients is missing or the empty list is
\* answered with 400 "Invalid request data" in a step that issues no
\* company-info request and no completion call and leaves the cache as it
\* is; a send request whose emails is missing or no list is answered with
\* 400 "Invalid email data format." in a step that issues no sendMail call.
C9_RejectBeforeSideEffects ==
    [][/\ \A r \in GenReqs :
            (GenArrives(r)
                /\ \/ gen'[r].body.type = "undefined"
                   \/ gen'[r].body.type = "array" /\ gen'[r].body.items = <<>>) =>
                /\ gres'[r] = <<Response(400, "Invalid request data", "", <<>>)>>
                /\ cache' = cache
                /\ \A k \in Pipelines :
                      k[1] = r => (fetch'[k].st = "idle" /\ pipe'[k].pc = "none")
       /\ \A q \in SendReqs :
            (SendArrives(q) /\ send'[q].type # "array") =>
                /\ sres'[q] = <<Response(400, "Invalid email data format.", "", <<>>)>>
                /\ mails' = mails
                /\ send'[q].st = "done"]_vars

\* both kinds of request have been turned away with 400 while the cache
\* holds an entry
C9_Witness ==
    /\ \E r \in GenReqs :
          /\ gres[r] = <<Response(400, "Invalid request data", "", <<>>)>>
          /\ gen[r].body.type = "array"
    /\ sres[1] = <<Response(400, "Invalid email data format.", "", <<>>)>>
    /\ send[1].type = "string"
    /\ \E key \in Keys : cache[key].has

\* C11: an invocation with the default retry count has never issued more
\* than 4 requests and is never nested deeper than its initial retry count,
\* whatever the other invocations do and however its requests end; and,
\* every request settling, an invocation that awaits a request returns.
C11_BoundedTermination ==
    /\ [](\A k \in DirectCallers :
            /\ fetch[k].calls <= DefaultRetries + 1
            /\ fetch[k].init - fetch[k].retries \in 0..fetch[k].init)
    /\ \A k \in DirectCallers :
          (fetch[k].st = "await") ~> (fetch[k].st = "returned")

\* an invocation got its payload from its fourth request while the other
\* caller's invocation for the same company is still retrying
C11_Witness ==
    \E k, j \in DirectCallers :
        /\ fetch[k].st = "returned" /\ fetch[k].via = "api"
        /\ fetch[k].init = DefaultRetries /\ fetch[k].calls = DefaultRetries + 1
        /\ fetch[j].st = "await" /\ fetch[j].name = fetch[k].name
        /\ fetch[j].retries < fetch[j].init

\* the position of the first newline of content c, 0 when it has none
firstNewline(c) ==
    IF \E i \in 1..Len(c) : c[i] = "\n"
    THEN CHOOSE i \in 1..Len(c) : c[i] = "\n" /\ \A j \in 1..(i - 1) : c[j] # "\n"
    ELSE 0

\* C12: the subject of a mail is its email's content up to the first newline
\* and its text is all that follows that newline, so that subject, newline
\* and text make up the content again; for a content without a newline the
\* subject is the whole content and the text is empty.
C12_SubjectAndBody ==
    \A q \in SendReqs : \A i \in 1..Len(mails[q]) :
        LET c == send[q].emails[i].content.chars
            o == mails[q][i].opts
            n == firstNewline(c)
        IN
        IF n > 0
        THEN /\ o.subject = SubSeq(c, 1, n - 1)
             /\ o.text = SubSeq(c, n + 1, Len(c))
             /\ o.subject \o <<"\n">> \o o.text = c
        ELSE /\ o.subject = c
             /\ o.text = <<>>

\* one request's mail comes from a content of three lines, whose text keeps
\* its newline; the other's from a one-line content, whose text is empty
C12_Witness ==
    /\ \E q \in SendReqs :
          /\ Len(mails[q]) = 1
          /\ send[q].emails[1].content.chars = <<"a", "\n", "\n">>
          /\ mails[q][1].opts.text = <<"\n">>
    /\ \E q \in SendReqs :
          /\ Len(mails[q]) = 1
          /\ send[q].emails[1].content.chars = <<"a", "b">>
          /\ mails[q][1].opts.subject = <<"a", "b">>
          /\ mails[q][1].opts.text = <<>>

\* the pipeline has settled
done(p) == p.pc \in {"fulfilled", "rejected"}

\* C13: a pipeline issues its completion call in the step in which its
\* fetchCompanyInfo invocation returns, with the value or null it returned,
\* and not before; it leaves the company-info stage only into a completion
\* call, issues one call and awaits it, and settles only from that call:
\* no pipeline is settled by a text generated for another one.
C13_GenerationAfterFetch ==
    [][\A k \in Pipelines :
          /\ (pipe'[k].pc = "gen" /\ pipe[k].pc # "gen") =>
                /\ fetch'[k].st # "await"
                /\ pipe'[k].companyInfo \in Payloads \cup {Null}
                /\ pipe[k].pc = "fetch" => fetch[k].st = "await"
          /\ pipe[k].pc = "fetch" =>
                /\ fetch[k].st = "await"
                /\ pipe'[k].pc \in {"fetch", "gen"}
                /\ pipe'[k].pc = "fetch" => fetch'[k].st = "await"
          /\ pipe[k].pc = "gen" =>
                /\ pipe'[k].pc \in {"gen", "fulfilled", "rejected"}
                /\ pipe'[k].pc = "gen" => pipe'[k] = pipe[k]
          /\ (done(pipe'[k]) /\ pipe'[k] # pipe[k]) => pipe[k].pc = "gen"
          /\ GenArrives(k[1]) => ~done(pipe'[k])
      ]_vars

\* two recipients with identical inputs in one request, whose invocations
\* returned the same payload: the text of one is generated and the
\* completion call of the other, for the same prompt, is in flight
C13_Witness ==
    \E r \in GenReqs :
        /\ Len(items(r)) = 2 /\ items(r)[1] = items(r)[2]
        /\ pipe[<<r, 1>>].pc = "fulfilled"
        /\ pipe[<<r, 2>>].pc = "gen"
        /\ pipe[<<r, 2>>].prompt = pipe[<<r, 1>>].prompt
        /\ pipe[<<r, 2>>].companyInfo = "{a}"

\* C14: a request has never been answered twice; a generate request whose
\* join is pending and a send request whose loop is running have not been
\* answered yet, every other request that has arrived has been answered
\* exactly once, with status 200, 400 or 500, whatever its pipelines that
\* are still running or settle later do.
C14_OneResponse ==
    /\ \A r \in GenReqs :
          /\ Len(gres[r]) <= 1
          /\ \A i \in 1..Len(gres[r]) : gres[r][i].status \in {200, 400, 500}
          /\ gen[r].all \in {"idle", "pending"} => gres[r] = <<>>
          /\ gen[r].all \in {"none", "fulfilled", "rejected"} => Len(gres[r]) = 1
    /\ \A q \in SendReqs :
          /\ Len(sres[q]) <= 1
          /\ \A i \in 1..Len(sres[q]) : sres[q][i].status \in {200, 400, 500}
          /\ send[q].st \in {"idle", "await"} => sres[q] = <<>>
          /\ send[q].st = "done" => Len(sres[q]) = 1

\* both pipelines of a generate request have failed, the second after the
\* 500 was written, and a send request has been answered next to it
C14_Witness ==
    \E r \in GenReqs :
        /\ Len(items(r)) = 2
        /\ \A k \in pipes(r) : pipe[k].pc = "rejected"
        /\ Len(gen[r].order) = 2
        /\ gres[r] = <<Err500Gen>>
        /\ sres[1] = <<Err500Send>>

\* a step in which the axios request of caller k's invocation for company c
\* resolves with payload d
ApiReturns(k, c, d) ==
    /\ fetch[k].st = "await" /\ fetch[k].name = c
    /\ d \in Payloads
    /\ IF k \in Pipelines
       THEN fetch'[k].st = "idle" /\ pipe'[k].pc = "gen" /\ pipe'[k].companyInfo = d
       ELSE ResolveStep(k) /\ fetch'[k].result = d

\* C15: the entry under "company:" + c changes only in a step in which a
\* company-info request for c resolves, to the payload it resolved with, or
\* in a step that removes the entry after its expiry; so an entry always
\* holds a payload, and no failed request, exhausted retry, failed
\* generation or send request writes or removes one.
C15_CacheProvenance ==
    [][\A c \in Companies :
          LET key == cacheKey(c) IN
          /\ cache'[key].has => cache'[key].v \in Payloads
          /\ cache'[key] # cache[key] =>
                \/ \E k \in Callers, d \in Payloads :
                      /\ ApiReturns(k, c, d)
                      /\ cache'[key] = [has |-> TRUE, v |-> d, t |-> now + stdTTL]
                \/ /\ expired(cache[key], now)
                   /\ cache'[key] = NoEntry
      ]_vars

\* Acme's entry stands while one pipeline for Acme has exhausted its retries,
\* the generation of another has failed and a send request has failed
C15_Witness ==
    \E r \in GenReqs :
        /\ Len(items(r)) = 2
        /\ \A i \in 1..2 : items(r)[i].companyName = "Acme"
        /\ pipe[<<r, 1>>].companyInfo = Null
        /\ pipe[<<r, 2>>].pc = "rejected" /\ pipe[<<r, 2>>].companyInfo = "{a}"
        /\ hasEntry(cache, "Acme", now) /\ cache[cacheKey("Acme")].v = "{a}"
        /\ sres[1] = <<Err500Send>>

\* C16: when a generate request arrives, each of its recipients whose
\* company has no stored entry has its own company-info request in flight at
\* the end of the arrival step, as many requests as recipients even when
\* they name the same company; and an invocation that awaits a request
\* while an entry for its company is stored issues no further request: when
\* its request fails with retries left it returns the stored payload.
C16_NoCoalescing ==
    [][/\ \A r \in GenReqs :
            (GenArrives(r) /\ gen'[r].all = "pending") =>
                \A i \in 1..Len(gen'[r].body.items) :
                    ~hasEntry(cache, gen'[r].body.items[i].companyName, now) =>
                        /\ pipe'[<<r, i>>].pc = "fetch"
                        /\ fetch'[<<r, i>>].st = "await"
                        /\ fetch'[<<r, i>>].calls = 1
       /\ \A k \in Pipelines :
            (fetch[k].st = "await" /\ hasEntry(cache, fetch[k].name, now)) =>
                /\ fetch'[k].calls <= fetch[k].calls
                /\ (fetch'[k] # fetch[k] /\ cache' = cache /\ fetch[k].retries > 0) =>
                      /\ pipe'[k].pc = "gen"
                      /\ pipe'[k].companyInfo = cache[cacheKey(fetch[k].name)].v
      ]_vars

====
